---- MODULE Spec2Model ----
(***************************************************************************)
(* Model of the statistical-arbitrage engine: the pair backtest            *)
(* (05_backtest_strategy.py), the Kalman-filter backtest                   *)
(* (07_kalman_filter_backtest.py), the grid optimizer                      *)
(* (06_optimize_strategy.py) and the cointegration scan                    *)
(* (03_cointegration_finder.py).                                           *)
(*                                                                         *)
(* Number representation.  TLC has integers only, so:                      *)
(*  - a z-score is an integer number of tenths (2.0 is 20, 0.5 is 5);      *)
(*  - a daily return, a cost and a net return are integer numbers of       *)
(*    1/ONE; COMMISSION is one such unit.  The code's rate is 0.001; the   *)
(*    model's grid is coarser so that products of equity factors stay      *)
(*    inside TLC's integers.  Only 0 < 2*COMMISSION < ONE is relied upon;  *)
(*  - equity, drawdown and total return are exact fractions <<n, d>>;      *)
(*  - a Sharpe ratio mean/std*sqrt(252) is kept as the exact fraction      *)
(*    <<a, b>> of its signed square divided by 252;                        *)
(*  - NaN is a sentinel for an undefined number; every comparison with it  *)
(*    is false, as in IEEE arithmetic, and pandas' reductions skip it.     *)
(*                                                                         *)
(* The library calls (OLS fit, rolling mean/std, the Kalman filter, the    *)
(* Engle-Granger test) are not in the repository: what they return is an   *)
(* input of the model, drawn from bounded sets in the initial states.      *)
(***************************************************************************)
EXTENDS Integers, Sequences, FiniteSets

\* ---------------------------------------------------------------- bounds
\* Longest price table (rows) of the signal and metrics specifications.
MaxLen == 4
\* Longest price table of the return-accounting and optimizer specifications.
MaxRows == 3
\* Number of instruments of the cointegration scan.
MaxTickers == 3
\* Longest price table given to the Kalman filter.
MaxObs == 2

\* ------------------------------------------------------------- constants
NaN == -1000000
ONE == 4
\* 05_backtest_strategy.py
WINDOW == 60
ENTRY_THRESHOLD == 20
EXIT_THRESHOLD == 5
COMMISSION == 1
\* 07_kalman_filter_backtest.py
KF_WINDOW == 60
KF_ENTRY_THRESHOLD == 20
KF_EXIT_THRESHOLD == 5
KF_COMMISSION == 1
\* KalmanFilter(...) of kalman_filter_hedge_ratio()
KF_TRANSITION_MATRIX == 1
KF_OBSERVATION_MATRIX == 1
KF_INITIAL_STATE_MEAN == 0
KF_INITIAL_STATE_COVARIANCE == 1
KF_OBSERVATION_COVARIANCE == 1
KF_TRANSITION_COVARIANCE == <<1, 100>>
\* 06_optimize_strategy.py
OPT_EXIT_THRESHOLD == 5
OPT_COMMISSION == 1
\* 03_cointegration_finder.py (p-values are integer hundredths)
P_VALUE_THRESHOLD == 5

\* --------------------------------------------------- floats and fractions
IsNaN(v) == v = NaN
Lt(a, b) == ~IsNaN(a) /\ ~IsNaN(b) /\ a < b
Le(a, b) == ~IsNaN(a) /\ ~IsNaN(b) /\ a <= b
Gt(a, b) == ~IsNaN(a) /\ ~IsNaN(b) /\ a > b
Ge(a, b) == ~IsNaN(a) /\ ~IsNaN(b) /\ a >= b
Abs(v) == IF IsNaN(v) THEN NaN ELSE IF v < 0 THEN 0 - v ELSE v
Neg(v) == IF IsNaN(v) THEN NaN ELSE 0 - v
Add(a, b) == IF IsNaN(a) \/ IsNaN(b) THEN NaN ELSE a + b
Sub(a, b) == IF IsNaN(a) \/ IsNaN(b) THEN NaN ELSE a - b
Mul(a, b) == IF IsNaN(a) \/ IsNaN(b) THEN NaN ELSE a * b

\* A fraction <<n, d>> with d >= 0: d = 0 is NaN (n = 0) or an infinity.
FNaN == <<0, 0>>
FIsNaN(f) == f[1] = 0 /\ f[2] = 0
RECURSIVE GCD(_, _)
GCD(a, b) == IF b = 0 THEN a ELSE GCD(b, a % b)
IAbs(n) == IF n < 0 THEN 0 - n ELSE n
Sign(n) == IF n > 0 THEN 1 ELSE IF n < 0 THEN 0 - 1 ELSE 0
\* The fraction n/d in lowest terms with a positive denominator.
Frac(n, d) ==
  IF d = 0 THEN <<Sign(n), 0>>
  ELSE LET g == GCD(IAbs(n), IAbs(d))
       IN IF d < 0 THEN <<(0 - n) \div g, (0 - d) \div g>> ELSE <<n \div g, d \div g>>
\* The fraction of an amount given in units of 1/ONE.
FAmount(v) == IF IsNaN(v) THEN FNaN ELSE Frac(v, ONE)
FOne == <<1, 1>>
FZero == <<0, 1>>
FMinusOne == <<0 - 1, 1>>
FEq(f, g) == ~FIsNaN(f) /\ ~FIsNaN(g) /\ f[1] * g[2] = g[1] * f[2]
FLt(f, g) == ~FIsNaN(f) /\ ~FIsNaN(g) /\ f[1] * g[2] < g[1] * f[2]
FLe(f, g) == ~FIsNaN(f) /\ ~FIsNaN(g) /\ f[1] * g[2] <= g[1] * f[2]
FSub(f, g) == IF FIsNaN(f) \/ FIsNaN(g) THEN FNaN
              ELSE Frac(f[1] * g[2] - g[1] * f[2], f[2] * g[2])
\* f + g over the least common denominator.
FAdd(f, g) == IF FIsNaN(f) \/ FIsNaN(g) THEN FNaN
              ELSE LET c == GCD(f[2], g[2])
                   IN Frac(f[1] * (g[2] \div c) + g[1] * (f[2] \div c),
                           (f[2] \div c) * g[2])
FInt(n) == <<n, 1>>
FNeg(f) == <<0 - f[1], f[2]>>
FMul(f, g) == IF FIsNaN(f) \/ FIsNaN(g) THEN FNaN ELSE Frac(f[1] * g[1], f[2] * g[2])
FDiv(f, g) == IF FIsNaN(f) \/ FIsNaN(g) THEN FNaN
              ELSE Frac(f[1] * g[2], f[2] * g[1])

\* ------------------------------------------------------- pandas' Series
\* A Series is a sequence indexed 1..Len, one entry per row of the table.
\* Series(f) is f itself, as a tuple: its entries are computed once.
Series(f) == f \o <<>>
Full(n, v) == Series([i \in 1..n |-> v])
Shift1(s) == Series([i \in 1..Len(s) |-> IF i = 1 THEN NaN ELSE s[i - 1]])
\* s[mask] = v
SetWhere(s, mask, v) == Series([i \in 1..Len(s) |-> IF mask[i] THEN v ELSE s[i]])
\* s.ffill(): the last defined value at or before i, if any.
FFill(s) ==
  Series([i \in 1..Len(s) |->
     LET defined == {j \in 1..i : ~IsNaN(s[j])}
     IN IF defined = {} THEN NaN
        ELSE s[CHOOSE j \in defined : \A k \in defined : k <= j]])
FillNa(s, v) == Series([i \in 1..Len(s) |-> IF IsNaN(s[i]) THEN v ELSE s[i]])
\* s.diff().abs()
DiffAbs(s) == Series([i \in 1..Len(s) |-> Abs(Sub(s[i], Shift1(s)[i]))])

\* Reductions skip NaN, as pandas' do.
Defined(s) == {i \in 1..Len(s) : ~IsNaN(s[i])}
Count(s) == Cardinality(Defined(s))
Sum(s) ==
  LET acc[i \in 0..Len(s)] ==
        IF i = 0 THEN 0 ELSE IF IsNaN(s[i]) THEN acc[i - 1] ELSE acc[i - 1] + s[i]
  IN acc[Len(s)]
SumSq(s) == Sum(Series([i \in 1..Len(s) |-> Mul(s[i], s[i])]))
\* (1 + s).cumprod(), s in units of 1/ONE: a Series of fractions.
CumProd1Plus(s) ==
  LET acc[i \in 0..Len(s)] ==
        IF i = 0 THEN FOne
        ELSE IF IsNaN(s[i]) THEN acc[i - 1]
        ELSE FMul(acc[i - 1], Frac(ONE + s[i], ONE))
  IN Series([i \in 1..Len(s) |-> IF IsNaN(s[i]) THEN FNaN ELSE acc[i]])
\* The largest (smallest) of a set of fractions in lowest terms; NaN if none.
FMaxOf(fs) == IF fs = {} THEN FNaN ELSE CHOOSE m \in fs : \A f \in fs : FLe(f, m)
FMinOf(fs) == IF fs = {} THEN FNaN ELSE CHOOSE m \in fs : \A f \in fs : FLe(m, f)
\* c.cummax()
CumMax(c) ==
  Series([i \in 1..Len(c) |->
     IF FIsNaN(c[i]) THEN FNaN ELSE FMaxOf({c[j] : j \in {k \in 1..i : ~FIsNaN(c[k])}})])
\* c.min()
FMin(c) == FMinOf({c[j] : j \in {k \in 1..Len(c) : ~FIsNaN(c[k])}})
\* c.iloc[-1]
Last(c) == c[Len(c)]

\* ------------------------------------------------------ signal generation
\* Mutant: the exit masks compare against ENTRY_THRESHOLD, not EXIT_THRESHOLD.
Positions_ExitAtEntry(z) ==
  LET n == Len(z)
      long_entry == Series([i \in 1..n |-> Lt(z[i], 0 - ENTRY_THRESHOLD)])
      long_exit == Series([i \in 1..n |-> Ge(z[i], 0 - ENTRY_THRESHOLD)])
      short_entry == Series([i \in 1..n |-> Gt(z[i], ENTRY_THRESHOLD)])
      short_exit == Series([i \in 1..n |-> Le(z[i], ENTRY_THRESHOLD)])
      p1 == SetWhere(Full(n, NaN), long_entry, 1)
      p2 == SetWhere(p1, short_entry, 0 - 1)
      p3 == SetWhere(p2, Series([i \in 1..n |-> long_exit[i] /\ Shift1(p2)[i] = 1]), 0)
      p4 == SetWhere(p3, Series([i \in 1..n |-> short_exit[i] /\ Shift1(p3)[i] = 0 - 1]), 0)
  IN FillNa(FFill(p4), 0)

\* Mutant: the forward fill left out, undefined rows filled with 0.
Positions_NoFFill(z) ==
  LET n == Len(z)
      long_entry == Series([i \in 1..n |-> Lt(z[i], 0 - ENTRY_THRESHOLD)])
      long_exit == Series([i \in 1..n |-> Ge(z[i], 0 - EXIT_THRESHOLD)])
      short_entry == Series([i \in 1..n |-> Gt(z[i], ENTRY_THRESHOLD)])
      short_exit == Series([i \in 1..n |-> Le(z[i], EXIT_THRESHOLD)])
      p1 == SetWhere(Full(n, NaN), long_entry, 1)
      p2 == SetWhere(p1, short_entry, 0 - 1)
      p3 == SetWhere(p2, Series([i \in 1..n |-> long_exit[i] /\ Shift1(p2)[i] = 1]), 0)
      p4 == SetWhere(p3, Series([i \in 1..n |-> short_exit[i] /\ Shift1(p3)[i] = 0 - 1]), 0)
  IN FillNa(p4, 0)

\* backtest(): masks, masked assignments in source order, forward fill.
Positions(z) ==
  LET n == Len(z)
      long_entry == Series([i \in 1..n |-> Lt(z[i], 0 - ENTRY_THRESHOLD)])
      long_exit == Series([i \in 1..n |-> Ge(z[i], 0 - EXIT_THRESHOLD)])
      short_entry == Series([i \in 1..n |-> Gt(z[i], ENTRY_THRESHOLD)])
      short_exit == Series([i \in 1..n |-> Le(z[i], EXIT_THRESHOLD)])
      p1 == SetWhere(Full(n, NaN), long_entry, 1)
      p2 == SetWhere(p1, short_entry, 0 - 1)
      p3 == SetWhere(p2, Series([i \in 1..n |-> long_exit[i] /\ Shift1(p2)[i] = 1]), 0)
      p4 == SetWhere(p3, Series([i \in 1..n |-> short_exit[i] /\ Shift1(p3)[i] = 0 - 1]), 0)
  IN FillNa(FFill(p4), 0)

\* backtest_kalman_strategy(): the same statements with its own thresholds.
KalmanPositions(z) ==
  LET n == Len(z)
      long_entry == Series([i \in 1..n |-> Lt(z[i], 0 - KF_ENTRY_THRESHOLD)])
      long_exit == Series([i \in 1..n |-> Ge(z[i], 0 - KF_EXIT_THRESHOLD)])
      short_entry == Series([i \in 1..n |-> Gt(z[i], KF_ENTRY_THRESHOLD)])
      short_exit == Series([i \in 1..n |-> Le(z[i], KF_EXIT_THRESHOLD)])
      p1 == SetWhere(Full(n, NaN), long_entry, 1)
      p2 == SetWhere(p1, short_entry, 0 - 1)
      p3 == SetWhere(p2, Series([i \in 1..n |-> long_exit[i] /\ Shift1(p2)[i] = 1]), 0)
      p4 == SetWhere(p3, Series([i \in 1..n |-> short_exit[i] /\ Shift1(p3)[i] = 0 - 1]), 0)
  IN FillNa(FFill(p4), 0)

\* run_optimization(): one exit mask, abs(z) < EXIT_THRESHOLD, assigned last.
OptPositions(z, threshold) ==
  LET n == Len(z)
      long_entry == Series([i \in 1..n |-> Lt(z[i], 0 - threshold)])
      short_entry == Series([i \in 1..n |-> Gt(z[i], threshold)])
      exit_signal == Series([i \in 1..n |-> Lt(Abs(z[i]), OPT_EXIT_THRESHOLD)])
      p1 == SetWhere(Full(n, NaN), long_entry, 1)
      p2 == SetWhere(p1, short_entry, 0 - 1)
      p3 == SetWhere(p2, exit_signal, 0)
  IN FillNa(FFill(p3), 0)

\* ------------------------------------------------------ return accounting
\* Mutant: today's position applied to today's return (no shift).
PortfolioReturns_NoShift(positions, ra, rb, h) ==
  Series([i \in 1..Len(positions) |-> Mul(positions[i], Sub(ra[i], Mul(h, rb[i])))])

\* positions.shift(1) * (daily_returns[a] - hedge_ratio * daily_returns[b])
PortfolioReturns(positions, ra, rb, h) ==
  Series([i \in 1..Len(positions) |->
     Mul(Shift1(positions)[i], Sub(ra[i], Mul(h, rb[i])))])

\* ... - hedge_ratio.shift(1) * daily_returns[b], the ratio being a Series.
KalmanPortfolioReturns(positions, ra, rb, hs) ==
  Series([i \in 1..Len(positions) |->
     Mul(Shift1(positions)[i], Sub(ra[i], Mul(Shift1(hs)[i], rb[i])))])

\* trades = positions.diff().abs()
Trades(positions) == DiffAbs(positions)

\* Mutant: one commission per row with a trade, whatever the size of the trade.
NetReturns_FlatFee(portfolio_returns, trades, commission) ==
  Series([i \in 1..Len(trades) |->
     Sub(portfolio_returns[i],
         IF IsNaN(trades[i]) THEN NaN ELSE IF trades[i] # 0 THEN commission ELSE 0)])

\* portfolio_returns - trades * COMMISSION
NetReturns(portfolio_returns, trades, commission) ==
  Series([i \in 1..Len(trades) |-> Sub(portfolio_returns[i], Mul(trades[i], commission))])

\* Mutant: the number of rows with a trade instead of the sum of the trades.
TradeCount_Rows(trades) == Cardinality({i \in Defined(trades) : trades[i] # 0})

\* int(trades.sum())
TradeCount(trades) == Sum(trades)

\* (mean / std) * sqrt(252) if std != 0 else 0, std with ddof = 1:
\* (mean/std)^2 = S^2 (n-1) / (n (n Q - S^2)) for n values of sum S and sum of
\* squares Q.  Fewer than two values: std is NaN, NaN != 0, the ratio is NaN.
SharpeRatio(net) ==
  LET n == Count(net)
      S == Sum(net)
      V == n * SumSq(net) - S * S
  IN IF n < 2 THEN FNaN
     ELSE IF V = 0 THEN FZero
     ELSE Frac(Sign(S) * S * S * (n - 1), n * V)

\* Mutant: the difference taken the other way round.
Drawdown_Reversed(cumulative_returns) ==
  LET cumulative_max == CumMax(cumulative_returns)
  IN Series([i \in 1..Len(cumulative_returns) |->
        FDiv(FSub(cumulative_max[i], cumulative_returns[i]), cumulative_max[i])])

\* (cumulative_returns - cumulative_max) / cumulative_max
Drawdown(cumulative_returns) ==
  LET cumulative_max == CumMax(cumulative_returns)
  IN Series([i \in 1..Len(cumulative_returns) |->
        FDiv(FSub(cumulative_returns[i], cumulative_max[i]), cumulative_max[i])])

\* cagr = final ** (1 / num_years) - 1 is kept as its operands.
CagrLoss == [kind |-> "minus_one", base |-> FZero, rows |-> 0]
Cagr(final, rows) == [kind |-> "power", base |-> final, rows |-> rows]

\* backtest(): the if/else sets max_drawdown, then it is computed again,
\* unconditionally, from the drawdown series, and that value is returned.
MaxDrawdown(cumulative_returns) ==
  LET in_branch == IF FLe(Last(cumulative_returns), FZero) THEN FMinusOne
                   ELSE FMin(Drawdown(cumulative_returns))
      after_branch == FMin(Drawdown(cumulative_returns))
  IN after_branch

\* backtest_kalman_strategy(): max_drawdown is set in the if/else only.
KalmanMaxDrawdown(cumulative_returns) ==
  IF Len(cumulative_returns) = 0 \/ FLe(Last(cumulative_returns), FZero) THEN FMinusOne
  ELSE FMin(Drawdown(cumulative_returns))

\* backtest() from the z-score on; the returned dict and the Series behind it.
BacktestRun(z, ra, rb, h) ==
  LET positions == Positions(z)
      portfolio_returns == PortfolioReturns(positions, ra, rb, h)
      trades == Trades(positions)
      net_portfolio_returns == NetReturns(portfolio_returns, trades, COMMISSION)
      cumulative_returns == CumProd1Plus(net_portfolio_returns)
      loss == FLe(Last(cumulative_returns), FZero)
  IN [positions |-> positions,
      portfolio_returns |-> portfolio_returns,
      net_portfolio_returns |-> net_portfolio_returns,
      cumulative_returns |-> cumulative_returns,
      total_return |-> IF loss THEN FMinusOne ELSE FSub(Last(cumulative_returns), FOne),
      cagr |-> IF loss THEN CagrLoss ELSE Cagr(Last(cumulative_returns), Len(z)),
      sharpe_ratio |-> IF loss THEN FZero ELSE SharpeRatio(net_portfolio_returns),
      max_drawdown |-> MaxDrawdown(cumulative_returns),
      trades |-> TradeCount(trades)]

\* backtest_kalman_strategy() from the z-score on.
KalmanRun(z, ra, rb, hs) ==
  LET positions == KalmanPositions(z)
      portfolio_returns == KalmanPortfolioReturns(positions, ra, rb, hs)
      trades == Trades(positions)
      net_portfolio_returns == NetReturns(portfolio_returns, trades, KF_COMMISSION)
      cumulative_returns == CumProd1Plus(net_portfolio_returns)
      loss == Len(z) = 0 \/ FLe(Last(cumulative_returns), FZero)
  IN [positions |-> positions,
      portfolio_returns |-> portfolio_returns,
      net_portfolio_returns |-> net_portfolio_returns,
      cumulative_returns |-> cumulative_returns,
      total_return |-> IF loss THEN FMinusOne ELSE FSub(Last(cumulative_returns), FOne),
      cagr |-> IF loss THEN CagrLoss ELSE Cagr(Last(cumulative_returns), Len(z)),
      sharpe_ratio |-> IF loss THEN FZero ELSE SharpeRatio(net_portfolio_returns),
      max_drawdown |-> KalmanMaxDrawdown(cumulative_returns),
      trades |-> TradeCount(trades)]

\* One grid cell of run_optimization(): no total-loss branch here.
OptSharpe(z, threshold, ra, rb, h) ==
  LET positions == OptPositions(z, threshold)
      portfolio_returns == PortfolioReturns(positions, ra, rb, h)
      trades == Trades(positions)
      net_portfolio_returns == NetReturns(portfolio_returns, trades, OPT_COMMISSION)
  IN SharpeRatio(net_portfolio_returns)

\* Mutant: idxmin() for idxmax().
IdxMax_Min(results) ==
  LET ok == {i \in 1..Len(results) : ~FIsNaN(results[i].sharpe_ratio)}
      low == {i \in ok : \A j \in ok : FLe(results[i].sharpe_ratio, results[j].sharpe_ratio)}
  IN IF ok = {} THEN 0 ELSE CHOOSE i \in low : \A j \in low : i <= j

\* Mutant: the last row holding the maximum.
IdxMax_Last(results) ==
  LET ok == {i \in 1..Len(results) : ~FIsNaN(results[i].sharpe_ratio)}
      top == {i \in ok : \A j \in ok : FLe(results[j].sharpe_ratio, results[i].sharpe_ratio)}
  IN IF ok = {} THEN 0 ELSE CHOOSE i \in top : \A j \in top : j <= i

\* results_df["sharpe_ratio"].idxmax(): the first row holding the maximum,
\* NaN skipped; 0 when every value is NaN.
IdxMax(results) ==
  LET ok == {i \in 1..Len(results) : ~FIsNaN(results[i].sharpe_ratio)}
      top == {i \in ok : \A j \in ok : FLe(results[j].sharpe_ratio, results[i].sharpe_ratio)}
  IN IF ok = {} THEN 0 ELSE CHOOSE i \in top : \A j \in top : i <= j

\* ------------------------------------------------------------ Kalman filter
\* kf.filter(observations): the forward recursion of a linear-Gaussian state
\* space model with scalar state and observation.  At each timestamp the
\* state is predicted from the posterior of the timestamp before (from the
\* prior at the first one) and corrected by the observation of the timestamp.
\* Row t of the result: predicted and posterior mean and covariance.
KfFilter(obs) ==
  LET A == FInt(KF_TRANSITION_MATRIX)
      H == FInt(KF_OBSERVATION_MATRIX)
      R == FInt(KF_OBSERVATION_COVARIANCE)
      Q == KF_TRANSITION_COVARIANCE
      st[t \in 1..Len(obs)] ==
        LET pred_mean == IF t = 1 THEN FInt(KF_INITIAL_STATE_MEAN)
                         ELSE FMul(A, st[t - 1].mean)
            pred_cov == IF t = 1 THEN FInt(KF_INITIAL_STATE_COVARIANCE)
                        ELSE FAdd(FMul(A, FMul(st[t - 1].cov, A)), Q)
            gain == FDiv(FMul(pred_cov, H), FAdd(FMul(H, FMul(pred_cov, H)), R))
        IN [pred_mean |-> pred_mean,
            pred_cov |-> pred_cov,
            mean |-> FAdd(pred_mean, FMul(gain, FAdd(obs[t], FNeg(FMul(H, pred_mean))))),
            cov |-> FAdd(pred_cov, FNeg(FMul(gain, FMul(H, pred_cov))))]
  IN Series(st)

\* kf.smooth(observations): the filter, then the backward pass that corrects
\* each mean by the means of the timestamps after it.
KfSmooth(obs) ==
  LET n == Len(obs)
      A == FInt(KF_TRANSITION_MATRIX)
      f == KfFilter(obs)
      sm[k \in 0..(n - 1)] ==
        LET t == n - k
        IN IF k = 0 THEN f[n].mean
           ELSE FAdd(f[t].mean,
                     FMul(FDiv(FMul(f[t].cov, A), f[t + 1].pred_cov),
                          FAdd(sm[k - 1], FNeg(f[t + 1].pred_mean))))
  IN Series([t \in 1..n |-> [mean |-> sm[n - t]]])

\* prices_a.values / prices_b.values
Observations(pa, pb) == Series([t \in 1..Len(pa) |-> Frac(pa[t], pb[t])])

\* Mutant: state_means taken from kf.smooth() instead of kf.filter().
kalman_filter_hedge_ratio_Smooth(pa, pb) ==
  LET state_means == KfSmooth(Observations(pa, pb))
  IN Series([t \in 1..Len(pa) |-> state_means[t].mean])

\* kalman_filter_hedge_ratio(prices_a, prices_b): one state mean per row of
\* prices_a, in the order of its index.
kalman_filter_hedge_ratio(pa, pb) ==
  LET state_means == KfFilter(Observations(pa, pb))
  IN Series([t \in 1..Len(pa) |-> state_means[t].mean])

\* ------------------------------------------------------ cointegration scan
\* list(itertools.combinations(tickers, 2)) for tickers 1..n: pairs (a, b),
\* a before b, in lexicographic order.
Combinations2(n) ==
  LET all == {p \in (1..n) \X (1..n) : p[1] < p[2]}
      before(p, q) == p[1] < q[1] \/ (p[1] = q[1] /\ p[2] < q[2])
      rank(p) == Cardinality({q \in all : before(q, p)}) + 1
  IN Series([k \in 1..Cardinality(all) |-> CHOOSE p \in all : rank(p) = k])

\* What coint() does for one pair: it raises, or returns a p-value.
Raised == [raises |-> TRUE, pvalue |-> NaN]
Returned(p) == [raises |-> FALSE, pvalue |-> p]

\* Mutant: pvalue <= P_VALUE_THRESHOLD.
AfterTest_Le(cointegrated_pairs, pair, outcome) ==
  IF outcome.raises THEN cointegrated_pairs
  ELSE IF Le(outcome.pvalue, P_VALUE_THRESHOLD)
       THEN Append(cointegrated_pairs, [pair |-> pair, p_value |-> outcome.pvalue])
       ELSE cointegrated_pairs

\* The body of the try: the pair is appended when pvalue < P_VALUE_THRESHOLD;
\* an exception leaves the list as it was (except Exception: continue).
AfterTest(cointegrated_pairs, pair, outcome) ==
  IF outcome.raises THEN cointegrated_pairs
  ELSE IF Lt(outcome.pvalue, P_VALUE_THRESHOLD)
       THEN Append(cointegrated_pairs, [pair |-> pair, p_value |-> outcome.pvalue])
       ELSE cointegrated_pairs

\* sorted(cointegrated_pairs, key=lambda x: x["p_value"]): a stable sort.
SortedByPValue(l) ==
  LET place(k) == Cardinality({j \in 1..Len(l) :
                     l[j].p_value < l[k].p_value
                     \/ (l[j].p_value = l[k].p_value /\ j <= k)})
  IN Series([r \in 1..Len(l) |-> l[CHOOSE k \in 1..Len(l) : place(k) = r]])

\* ------------------------------------------------------------------ state
VARIABLES
  pc,                 \* where the running script is
  z_score,            \* z_score of backtest() / backtest_kalman_strategy()
  ret_a, ret_b,       \* daily_returns[ticker_a], daily_returns[ticker_b]
  hedge_ratio,        \* model.params[1], the OLS slope
  kf_hedge_ratio,     \* kalman_filter_hedge_ratio(...), a Series
  prices_a, prices_b, \* prices_a, prices_b of kalman_filter_hedge_ratio()
  run,                \* what the backtest computed and returned
  window_range,       \* WINDOW_RANGE
  threshold_range,    \* THRESHOLD_RANGE
  z_by_window,        \* z_score of run_optimization(), per window
  wi, ti,             \* the nested loops' positions
  results,            \* results
  best_params,        \* best_params
  tickers,            \* number of columns of close_prices
  coint,              \* coint()'s outcome per pair
  tested,             \* the pairs coint() was called with, in order
  i,                  \* the scan loop's position
  cointegrated_pairs, \* cointegrated_pairs
  sorted_pairs        \* sorted_pairs

inputVars == <<z_score, ret_a, ret_b, hedge_ratio, kf_hedge_ratio, prices_a, prices_b>>
optVars == <<window_range, threshold_range, z_by_window, wi, ti, results, best_params>>
scanVars == <<tickers, coint, tested, i, cointegrated_pairs, sorted_pairs>>
vars == <<pc, inputVars, run, optVars, scanVars>>

NoRun == [positions |-> <<>>]
NoBest == [window |-> 0, threshold |-> 0, sharpe_ratio |-> FNaN]

\* A Series of n rows whose first row is NaN and whose other rows are in S:
\* pct_change() and every rolling statistic are undefined on the first row.
SeriesFrom(n, S) == {<<NaN>> \o t : t \in [1..(n - 1) -> S]}
\* A z-score Series of n rows: NaN while the rolling window warms up (the
\* first row at least), then values in S.
ZSeries(n, S) == UNION {{Full(k, NaN) \o t : t \in [1..(n - k) -> S]} : k \in 1..n}

\* The z-scores: both sides of, and exactly on, every threshold.
ZValues == {0 - 30, 0 - 20, 0 - 10, 0 - 5, 0, 5, 10, 20, 30}
ZFew == {0 - 30, 0 - 10, 0, 30}
ZGrid == {0 - 15, 0, 30}
ZEntries == {0 - 30, 0, 30}
\* Daily returns in units of 1/ONE; a price cannot lose more than all of it.
ReturnsA == {0 - 2, 2, 4, 6}
SmallReturns == {0 - 2, 2}
ReturnsB == {0, 2}
HedgeRatios == {1, 2}

NoOptimizer ==
  /\ window_range = <<>> /\ threshold_range = <<>> /\ z_by_window = <<>>
  /\ wi = 0 /\ ti = 0 /\ results = <<>> /\ best_params = NoBest
NoScan ==
  /\ tickers = 0 /\ coint = <<>> /\ tested = <<>> /\ i = 0
  /\ cointegrated_pairs = <<>> /\ sorted_pairs = <<>>
NoPrices == prices_a = <<>> /\ prices_b = <<>>
NoBacktest ==
  /\ z_score = <<>> /\ ret_a = <<>> /\ ret_b = <<>> /\ hedge_ratio = 0
  /\ kf_hedge_ratio = <<>> /\ run = NoRun /\ NoPrices

\* Signals: every z-score pattern, flat prices.
InitSignal ==
  /\ pc = "start"
  /\ \E n \in 1..MaxLen :
       /\ z_score \in ZSeries(n, ZValues)
       /\ ret_a = <<NaN>> \o Full(n - 1, 0)
       /\ ret_b = <<NaN>> \o Full(n - 1, 0)
       /\ kf_hedge_ratio = Full(n, 1)
  /\ hedge_ratio = 1
  /\ run = NoRun
  /\ NoOptimizer /\ NoScan /\ NoPrices

\* Metrics: entries, holds and exits against gains and losses up to -150%.
InitMetrics ==
  /\ pc = "start"
  /\ \E n \in 1..MaxLen :
       /\ z_score \in ZSeries(n, ZFew)
       /\ ret_a \in SeriesFrom(n, ReturnsA)
       /\ ret_b = <<NaN>> \o Full(n - 1, 0)
       /\ kf_hedge_ratio = Full(n, 1)
  /\ hedge_ratio = 1
  /\ run = NoRun
  /\ NoOptimizer /\ NoScan /\ NoPrices

\* Return accounting: both legs move, the hedge ratio varies.
InitReturns ==
  /\ pc = "start"
  /\ \E n \in 2..MaxRows :
       /\ z_score \in ZSeries(n, ZEntries)
       /\ ret_a \in SeriesFrom(n, SmallReturns)
       /\ ret_b \in SeriesFrom(n, ReturnsB)
       /\ kf_hedge_ratio \in [1..n -> HedgeRatios]
  /\ hedge_ratio \in HedgeRatios
  /\ run = NoRun
  /\ NoOptimizer /\ NoScan /\ NoPrices

\* Holding: the z-score may be undefined on any row (a window of constant
\* spread has a rolling std of 0), not only while the window fills.
ZHold == {NaN, 0 - 30, 0 - 10, 0, 10, 30}
InitHold ==
  /\ pc = "start"
  /\ \E n \in 1..MaxLen :
       /\ z_score \in SeriesFrom(n, ZHold)
       /\ ret_a = <<NaN>> \o Full(n - 1, 0)
       /\ ret_b = <<NaN>> \o Full(n - 1, 0)
       /\ kf_hedge_ratio = Full(n, 1)
  /\ hedge_ratio = 1
  /\ run = NoRun
  /\ NoOptimizer /\ NoScan /\ NoPrices

\* The optimizer on sub-ranges of its two candidate ranges.
WindowRanges == {<<60>>, <<20, 60>>}
ThresholdRanges == {<<20>>, <<10, 20>>}
Elems(s) == {s[k] : k \in 1..Len(s)}
InitOptimize ==
  /\ pc = "optimizing"
  /\ window_range \in WindowRanges
  /\ threshold_range \in ThresholdRanges
  /\ \E n \in 2..MaxRows :
       /\ z_by_window \in [Elems(window_range) -> ZSeries(n, ZGrid)]
       /\ ret_a \in SeriesFrom(n, SmallReturns)
       /\ ret_b = <<NaN>> \o Full(n - 1, 0)
       /\ kf_hedge_ratio = Full(n, 1)
  /\ z_score = <<>>
  /\ hedge_ratio = 1
  /\ run = NoRun
  /\ wi = 1 /\ ti = 1 /\ results = <<>> /\ best_params = NoBest
  /\ NoScan /\ NoPrices

\* The optimizer with its cells evaluated as independent tasks: the same
\* inputs, z-scores that enter at one threshold only or at both.
ZOrder == {0 - 15, 30}
InitAnyOrder ==
  /\ pc = "optimizing"
  /\ window_range \in WindowRanges
  /\ threshold_range \in ThresholdRanges
  /\ \E n \in 3..MaxRows :
       /\ z_by_window \in [Elems(window_range) -> ZSeries(n, ZOrder)]
       /\ ret_a \in SeriesFrom(n, SmallReturns)
       /\ ret_b = <<NaN>> \o Full(n - 1, 0)
       /\ kf_hedge_ratio = Full(n, 1)
  /\ z_score = <<>>
  /\ hedge_ratio = 1
  /\ run = NoRun
  /\ wi = 1 /\ ti = 1 /\ results = <<>> /\ best_params = NoBest
  /\ NoScan /\ NoPrices

\* The scan: every outcome of coint() for every pair.
Outcomes == {Raised} \cup {Returned(p) : p \in {1, 4, 5}}
InitScan ==
  /\ pc = "scanning"
  /\ tickers \in 0..MaxTickers
  /\ coint \in [Elems(Combinations2(tickers)) -> Outcomes]
  /\ tested = <<>> /\ i = 0 /\ cointegrated_pairs = <<>> /\ sorted_pairs = <<>>
  /\ NoBacktest /\ NoOptimizer

\* The Kalman filter: every table of up to MaxObs rows of positive prices.
PricesA == {1, 2, 3, 4}
PricesB == {1, 2}
PriceTables ==
  UNION {[1..n -> PricesA] \X [1..n -> PricesB] : n \in 1..MaxObs}
InitKalman ==
  /\ pc = "filtering"
  /\ \E tbl \in PriceTables : prices_a = tbl[1] /\ prices_b = tbl[2]
  /\ z_score = <<>> /\ ret_a = <<>> /\ ret_b = <<>> /\ hedge_ratio = 0
  /\ kf_hedge_ratio = <<>> /\ run = NoRun
  /\ NoOptimizer /\ NoScan

\* ---------------------------------------------------------------- actions
\* backtest(pair_prices, ticker_a, ticker_b)
Backtest ==
  /\ pc = "start"
  /\ run' = BacktestRun(z_score, ret_a, ret_b, hedge_ratio)
  /\ pc' = "backtest"
  /\ UNCHANGED <<inputVars, optVars, scanVars>>

\* backtest_kalman_strategy(file_path, ticker_a, ticker_b)
KalmanBacktest ==
  /\ pc = "start"
  /\ run' = KalmanRun(z_score, ret_a, ret_b, kf_hedge_ratio)
  /\ pc' = "kalman"
  /\ UNCHANGED <<inputVars, optVars, scanVars>>

\* One pass of the inner loop of run_optimization().
OptimizeCell ==
  /\ pc = "optimizing"
  /\ wi <= Len(window_range)
  /\ LET window == window_range[wi]
         threshold == threshold_range[ti]
     IN results' = Append(results,
          [window |-> window, threshold |-> threshold,
           sharpe_ratio |-> OptSharpe(z_by_window[window], threshold,
                                      ret_a, ret_b, hedge_ratio)])
  /\ IF ti < Len(threshold_range)
     THEN wi' = wi /\ ti' = ti + 1
     ELSE wi' = wi + 1 /\ ti' = 1
  /\ UNCHANGED <<pc, inputVars, run, window_range, threshold_range, z_by_window,
                 best_params, scanVars>>

\* The body of the inner loop run for any cell not evaluated yet, its row
\* appended to results on completion; the loops end with the last cell.
OptimizeCellAnyOrder ==
  /\ pc = "optimizing"
  /\ wi <= Len(window_range)
  /\ \E a \in 1..Len(window_range), b \in 1..Len(threshold_range) :
       LET window == window_range[a]
           threshold == threshold_range[b]
       IN /\ \A k \in 1..Len(results) :
               results[k].window # window \/ results[k].threshold # threshold
          /\ results' = Append(results,
               [window |-> window, threshold |-> threshold,
                sharpe_ratio |-> OptSharpe(z_by_window[window], threshold,
                                           ret_a, ret_b, hedge_ratio)])
  /\ IF Len(results) + 1 = Len(window_range) * Len(threshold_range)
     THEN wi' = Len(window_range) + 1 /\ ti' = 1
     ELSE wi' = wi /\ ti' = ti
  /\ UNCHANGED <<pc, inputVars, run, window_range, threshold_range, z_by_window,
                 best_params, scanVars>>

\* After the loops: best_params = results_df.loc[...idxmax()].
BestParams ==
  /\ pc = "optimizing"
  /\ wi > Len(window_range)
  /\ best_params' = IF IdxMax(results) = 0 THEN NoBest ELSE results[IdxMax(results)]
  /\ pc' = "optimized"
  /\ UNCHANGED <<inputVars, run, window_range, threshold_range, z_by_window,
                 wi, ti, results, scanVars>>

\* One pass of the loop of find_cointegrated_pairs().
TestPair ==
  /\ pc = "scanning"
  /\ i < Len(Combinations2(tickers))
  /\ LET pair == Combinations2(tickers)[i + 1]
     IN /\ tested' = Append(tested, pair)
        /\ cointegrated_pairs' = AfterTest(cointegrated_pairs, pair, coint[pair])
  /\ i' = i + 1
  /\ UNCHANGED <<pc, inputVars, run, optVars, tickers, coint, sorted_pairs>>

\* After the loop: if cointegrated_pairs: sorted_pairs = sorted(...).
RankPairs ==
  /\ pc = "scanning"
  /\ i = Len(Combinations2(tickers))
  /\ sorted_pairs' = IF cointegrated_pairs # <<>>
                     THEN SortedByPValue(cointegrated_pairs) ELSE <<>>
  /\ pc' = "scanned"
  /\ UNCHANGED <<inputVars, run, optVars, tickers, coint, tested, i, cointegrated_pairs>>

\* hedge_ratio = kalman_filter_hedge_ratio(pair_prices[a], pair_prices[b])
KalmanFilterHedgeRatio ==
  /\ pc = "filtering"
  /\ kf_hedge_ratio' = kalman_filter_hedge_ratio(prices_a, prices_b)
  /\ pc' = "filtered"
  /\ UNCHANGED <<z_score, ret_a, ret_b, hedge_ratio, prices_a, prices_b,
                 run, optVars, scanVars>>

NextBacktest == Backtest \/ KalmanBacktest
NextOptimize == OptimizeCell \/ BestParams
NextScan == TestPair \/ RankPairs
NextAnyOrder == OptimizeCellAnyOrder \/ BestParams

SpecSignal == InitSignal /\ [][NextBacktest]_vars
SpecMetrics == InitMetrics /\ [][NextBacktest]_vars
SpecReturns == InitReturns /\ [][NextBacktest]_vars
SpecOptimize == InitOptimize /\ [][NextOptimize]_vars
SpecScan == InitScan /\ [][NextScan]_vars
SpecHold == InitHold /\ [][NextBacktest]_vars
SpecAnyOrder == InitAnyOrder /\ [][NextAnyOrder]_vars
SpecKalman == InitKalman /\ [][KalmanFilterHedgeRatio]_vars

\* ----------------------------------------------------------------- claims
Ran == pc \in {"backtest", "kalman"}
Rows == 1..Len(z_score)
LongEntry(t) == Lt(z_score[t], 0 - ENTRY_THRESHOLD)
ShortEntry(t) == Gt(z_score[t], ENTRY_THRESHOLD)
LongExit(t) == Ge(z_score[t], 0 - EXIT_THRESHOLD)
ShortExit(t) == Le(z_score[t], EXIT_THRESHOLD)
Step(t, from, to) == t > 1 /\ run.positions[t - 1] = from /\ run.positions[t] = to

\* C1: at every row whose z-score is below -entry_threshold the position is
\* Long, and at every row whose z-score is above entry_threshold it is Short,
\* whatever the position of the row before and whatever exit condition holds.
C1_EntryAlwaysTaken ==
  Ran => \A t \in Rows :
           /\ LongEntry(t) => run.positions[t] = 1
           /\ ShortEntry(t) => run.positions[t] = 0 - 1

\* C2: a Long position goes Flat at any row with z >= -exit_threshold and no
\* entry condition, a Short one at any row with z <= exit_threshold and no
\* entry condition, however long the position has been held.
C2_ExitWheneverReverted ==
  Ran => \A t \in Rows \ {1} :
           /\ (run.positions[t - 1] = 1 /\ LongExit(t)
                 /\ ~LongEntry(t) /\ ~ShortEntry(t)) => run.positions[t] = 0
           /\ (run.positions[t - 1] = 0 - 1 /\ ShortExit(t)
                 /\ ~LongEntry(t) /\ ~ShortEntry(t)) => run.positions[t] = 0

\* C3: Long is left for Flat only at a row with z >= -exit_threshold and for
\* Short only at a row with z > entry_threshold; Short is left for Flat only
\* at a row with z <= exit_threshold and for Long only with z < -entry_threshold.
C3_NoEarlyOrSidewaysExit ==
  Ran => \A t \in Rows :
           /\ Step(t, 1, 0) => LongExit(t)
           /\ Step(t, 1, 0 - 1) => ShortEntry(t)
           /\ Step(t, 0 - 1, 0) => ShortExit(t)
           /\ Step(t, 0 - 1, 1) => LongEntry(t)
\* backtest() held Long over a row and then flipped to Short.
C3_Witness ==
  /\ pc = "backtest"
  /\ \E t \in Rows : Step(t, 1, 0 - 1) /\ Step(t - 1, 1, 1)

\* C4: whenever the final equity is <= 0 the run reports total_return -1,
\* cagr -1, max_drawdown -1 and sharpe_ratio 0.
C4_TotalLossReport ==
  (Ran /\ FLe(Last(run.cumulative_returns), FZero)) =>
     /\ FEq(run.total_return, FMinusOne)
     /\ run.cagr = CagrLoss
     /\ FEq(run.max_drawdown, FMinusOne)
     /\ FEq(run.sharpe_ratio, FZero)

Changes == {t \in Rows \ {1} : run.positions[t] # run.positions[t - 1]}
Flips == {t \in Rows \ {1} : run.positions[t] * run.positions[t - 1] = 0 - 1}
\* C5, as claimed: "trades" is the number of rows whose position differs
\* from the row before.
C5_TradesCountChanges == Ran => run.trades = Cardinality(Changes)
\* C5, amended: "trades" is the number of rows whose position differs from
\* the row before plus the number of direct Long/Short flips: a flip is two.
C5_TradesCountFlipsTwice ==
  Ran => run.trades = Cardinality(Changes) + Cardinality(Flips)
\* backtest() ran on positions holding a direct flip.
C5_Witness == pc = "backtest" /\ Flips # {} /\ Cardinality(Changes) > 1

\* The same run with the z-score of row t replaced by v.
WithZ(t, v) == [z_score EXCEPT ![t] = v]
\* C6: the gross return of row t is position(t-1) * (return_a(t) - h *
\* return_b(t)), h the static ratio in backtest() and the ratio of row t-1 in
\* backtest_kalman_strategy(); a run that differs in the z-score of row t
\* (so in nothing the positions before t depend on) has the same gross return.
C6_NoLookahead ==
  /\ pc = "backtest" =>
       \A t \in Rows \ {1} :
         /\ run.portfolio_returns[t]
              = run.positions[t - 1] * (ret_a[t] - hedge_ratio * ret_b[t])
         /\ \A v \in ZEntries \cup {NaN} :
              PortfolioReturns(Positions(WithZ(t, v)), ret_a, ret_b, hedge_ratio)[t]
                = run.portfolio_returns[t]
  /\ pc = "kalman" =>
       \A t \in Rows \ {1} :
         /\ run.portfolio_returns[t]
              = run.positions[t - 1] * (ret_a[t] - kf_hedge_ratio[t - 1] * ret_b[t])
         /\ \A v \in ZEntries \cup {NaN} :
              KalmanPortfolioReturns(KalmanPositions(WithZ(t, v)), ret_a, ret_b,
                                     kf_hedge_ratio)[t]
                = run.portfolio_returns[t]
\* A row where the position was held from the day before, changes today,
\* leg b moved and the dynamic ratio changed.
C6_Witness ==
  /\ pc = "kalman"
  /\ \E t \in Rows \ {1} :
       /\ run.positions[t - 1] # 0
       /\ run.positions[t] # run.positions[t - 1]
       /\ ret_b[t] # 0
       /\ kf_hedge_ratio[t] # kf_hedge_ratio[t - 1]

OneCell == window_range = <<WINDOW>> /\ threshold_range = <<ENTRY_THRESHOLD>>
\* C7: with the single window WINDOW and the single threshold
\* ENTRY_THRESHOLD the grid has one cell, whose Sharpe ratio is the one
\* backtest() returns on the same data, the positions being the same.
C7_OneCellEqualsBacktest ==
  (pc = "optimized" /\ OneCell) =>
     /\ Len(results) = 1
     /\ OptPositions(z_by_window[WINDOW], ENTRY_THRESHOLD)
          = Positions(z_by_window[WINDOW])
     /\ results[1].sharpe_ratio
          = BacktestRun(z_by_window[WINDOW], ret_a, ret_b, hedge_ratio).sharpe_ratio

IsMax(k) == \A j \in 1..Len(results) :
              FLe(results[j].sharpe_ratio, results[k].sharpe_ratio)
\* C8: the grid holds one Sharpe value for every (window, threshold) of the
\* cross product, windows outer and thresholds inner, and the best cell is
\* the first of those whose Sharpe ratio is the maximum (a table of fewer
\* than three rows has fewer than two net returns and no Sharpe ratio at all).
C8_FullGridFirstArgmax ==
  pc = "optimized" =>
     /\ Len(results) = Len(window_range) * Len(threshold_range)
     /\ \A a \in 1..Len(window_range) : \A b \in 1..Len(threshold_range) :
          LET cells == {k \in 1..Len(results) :
                          /\ results[k].window = window_range[a]
                          /\ results[k].threshold = threshold_range[b]}
          IN /\ cells = {(a - 1) * Len(threshold_range) + b}
             /\ \A k \in cells :
                  results[k].sharpe_ratio
                    = OptSharpe(z_by_window[window_range[a]], threshold_range[b],
                                ret_a, ret_b, hedge_ratio)
     /\ (\E c \in 1..Len(results) : ~FIsNaN(results[c].sharpe_ratio)) =>
          \E k \in 1..Len(results) :
            /\ best_params = results[k]
            /\ IsMax(k)
            /\ \A j \in 1..(k - 1) : ~IsMax(j)
\* A four-cell grid where two cells tie for the maximum and the first cell
\* is below it.
C8_Witness ==
  /\ pc = "optimized"
  /\ Len(results) = 4
  /\ Cardinality({k \in 1..4 : IsMax(k)}) = 2
  /\ ~IsMax(1)

PairsOf(n) == {p \in (1..n) \X (1..n) : p[1] < p[2]}
Passed == {p \in PairsOf(tickers) :
             ~coint[p].raises /\ coint[p].pvalue < P_VALUE_THRESHOLD}
\* C9: every unordered pair is tested exactly once, a raising test included
\* and the pairs after it too; the ranked result holds exactly the pairs whose
\* test returned p_value < P_VALUE_THRESHOLD, each once, by ascending p_value.
C9_ScanComplete ==
  pc = "scanned" =>
     /\ \A k \in 1..Len(tested) : tested[k] \in PairsOf(tickers)
     /\ \A p \in PairsOf(tickers) :
          Cardinality({k \in 1..Len(tested) : tested[k] = p}) = 1
     /\ {sorted_pairs[k].pair : k \in 1..Len(sorted_pairs)} = Passed
     /\ Len(sorted_pairs) = Cardinality(Passed)
     /\ \A k \in 1..Len(sorted_pairs) :
          sorted_pairs[k].p_value = coint[sorted_pairs[k].pair].pvalue
     /\ \A k \in 2..Len(sorted_pairs) :
          sorted_pairs[k - 1].p_value <= sorted_pairs[k].p_value
\* A test raised, a later pair passed, and sorting changed the order.
C9_Witness ==
  /\ pc = "scanned"
  /\ \E j, k \in 1..Len(tested) :
       j < k /\ coint[tested[j]].raises /\ tested[k] \in Passed
  /\ Len(sorted_pairs) > 1
  /\ sorted_pairs # cointegrated_pairs

NonDecreasing(c) == \A t \in 3..Len(c) : FLe(c[t - 1], c[t])
\* C10: on a table of at least two rows the max_drawdown of the run is <= 0,
\* and it is 0 only when the equity curve never decreases.
C10_DrawdownNonPositive ==
  (Ran /\ Len(z_score) >= 2) =>
     /\ FLe(run.max_drawdown, FZero)
     /\ FEq(run.max_drawdown, FZero) => NonDecreasing(run.cumulative_returns)
\* backtest() ran on an equity curve that a net return <= -1 took to zero or
\* below.
C10_Witness ==
  /\ pc = "backtest"
  /\ \E t \in Rows \ {1} :
       /\ run.net_portfolio_returns[t] <= 0 - ONE
       /\ FLe(run.cumulative_returns[t], FZero)

\* The net returns of the run had the commission rate been c.
NetAt(c) == NetReturns(run.portfolio_returns, Trades(run.positions), c)
\* C11: with positions and prices fixed, at every row after the first the net
\* return at twice the commission rate is <= the net return at the rate of
\* the run, lower exactly at the rows where the position changed and equal
\* at the others; the cost of the run is one commission on an open or a
\* close and two on a direct flip.
C11_CommissionMonotone ==
  Ran => \A t \in Rows \ {1} :
           /\ run.net_portfolio_returns[t] = NetAt(COMMISSION)[t]
           /\ NetAt(2 * COMMISSION)[t] <= NetAt(COMMISSION)[t]
           /\ (NetAt(2 * COMMISSION)[t] < NetAt(COMMISSION)[t]) <=> (t \in Changes)
           /\ run.portfolio_returns[t] - run.net_portfolio_returns[t]
                = IF t \in Flips THEN 2 * COMMISSION
                  ELSE IF t \in Changes THEN COMMISSION ELSE 0
\* backtest() ran on positions with an open, a held row and a direct flip.
C11_Witness ==
  /\ pc = "backtest"
  /\ Flips # {}
  /\ Changes \ Flips # {}
  /\ \E t \in Rows \ {1} : t \notin Changes /\ run.positions[t] # 0

\* The z-score is undefined at every row (a spread of zero variance, or a
\* table shorter than the rolling window).
NoZScore == \A t \in Rows : IsNaN(z_score[t])
\* C12: when the z-score is undefined at every row, backtest() is Flat at
\* every row, counts no trade, has every defined net return 0 and reports a
\* Sharpe ratio of 0.
C12_ZeroVarianceNoTrade ==
  (pc = "backtest" /\ NoZScore) =>
     /\ \A t \in Rows : run.positions[t] = 0
     /\ run.trades = 0
     /\ \A t \in Defined(run.net_portfolio_returns) : run.net_portfolio_returns[t] = 0
     /\ FEq(run.sharpe_ratio, FZero)

\* The tables of up to MaxObs rows that agree with the filtered one on rows 1..t.
AgreeUpTo(t) ==
  {tbl \in PriceTables :
     /\ Len(tbl[1]) >= t
     /\ \A k \in 1..t : tbl[1][k] = prices_a[k] /\ tbl[2][k] = prices_b[k]}
\* C13: kalman_filter_hedge_ratio() returns one ratio per row; the first is
\* the posterior of the prior (mean 0, variance 1) given the first
\* observation alone; and every table that agrees with the filtered one on
\* rows 1..t gets the same ratios on rows 1..t, whatever its later rows.
C13_PrefixDeterminism ==
  pc = "filtered" =>
     /\ Len(kf_hedge_ratio) = Len(prices_a)
     /\ kf_hedge_ratio[1] = FDiv(Frac(prices_a[1], prices_b[1]), FInt(2))
     /\ \A t \in 1..Len(prices_a) : \A tbl \in AgreeUpTo(t) :
          \A k \in 1..t :
            kalman_filter_hedge_ratio(tbl[1], tbl[2])[k] = kf_hedge_ratio[k]
\* A table was filtered whose last two rows differ in the observed ratio, so
\* that a table agreeing on all rows but the last has another last ratio.
C13_Witness ==
  /\ pc = "filtered"
  /\ Len(prices_a) = MaxObs
  /\ \E tbl \in AgreeUpTo(MaxObs - 1) :
       /\ Len(tbl[1]) = MaxObs
       /\ kalman_filter_hedge_ratio(tbl[1], tbl[2])[MaxObs] # kf_hedge_ratio[MaxObs]

NoEntry(t) == ~LongEntry(t) /\ ~ShortEntry(t)
\* An exit condition that applies to the position of the row before holds.
ExitApplies(t) ==
  \/ run.positions[t - 1] = 1 /\ LongExit(t)
  \/ run.positions[t - 1] = 0 - 1 /\ ShortExit(t)
\* C14: every row has a position in {Long, Short, Flat}; the position is
\* Flat up to the first entry signal; and at every row with no entry
\* condition and no exit condition applying to the position of the row
\* before (a row with an undefined z-score is one) the position is that of
\* the row before.
C14_HoldByForwardCarry ==
  Ran => /\ \A t \in Rows : run.positions[t] \in {0 - 1, 0, 1}
         /\ \A t \in Rows : (\A k \in 1..t : NoEntry(k)) => run.positions[t] = 0
         /\ \A t \in Rows \ {1} :
              (NoEntry(t) /\ ~ExitApplies(t)) => run.positions[t] = run.positions[t - 1]
\* backtest() held a Long position over a row whose z-score is undefined and
\* over a row whose z-score is between the thresholds.
C14_Witness ==
  /\ pc = "backtest"
  /\ \E t, u \in Rows \ {1} :
       /\ IsNaN(z_score[t]) /\ Step(t, 1, 1)
       /\ ~IsNaN(z_score[u]) /\ NoEntry(u) /\ Step(u, 1, 1)

\* What the sequential loop of run_optimization() appends, and its best row.
SequentialResults ==
  LET T == Len(threshold_range)
  IN Series([k \in 1..(Len(window_range) * T) |->
       LET window == window_range[((k - 1) \div T) + 1]
           threshold == threshold_range[((k - 1) % T) + 1]
       IN [window |-> window, threshold |-> threshold,
           sharpe_ratio |-> OptSharpe(z_by_window[window], threshold,
                                      ret_a, ret_b, hedge_ratio)]])
SequentialBest ==
  IF IdxMax(SequentialResults) = 0 THEN NoBest
  ELSE SequentialResults[IdxMax(SequentialResults)]
====
